---- MODULE Spec2Model ----
(***************************************************************************)
(* ORBITA manager agent: the load_memory -> router -> handler ->           *)
(* update_memory pipeline of manager_agent.py, the long-term memory        *)
(* functions of manager_memory.py and the tool-use loop of the email and   *)
(* budget handlers.  Python strings are TLA+ strings; the operators below  *)
(* compute on them character by character, as the Python code does.        *)
(***************************************************************************)
EXTENDS Integers, Sequences, FiniteSets, TLC

VARIABLES
    pc,              \* node of the manager graph about to run; "idle", "done", "error"
    hpc,             \* node of the handler sub-graph about to run: "llm", "tools", "off"
    config,          \* config["configurable"] of the running invocation
    input,           \* the messages the caller passed to manager_agent.invoke
    messages,        \* ManagerState["messages"]
    hmessages,       \* the handler sub-graph's own "messages" channel
    route,           \* ManagerState["route"]
    memory_context,  \* ManagerState["memory_context"]
    store,           \* the global InMemoryStore: namespace -> ordered items
    rounds,          \* tool rounds of the running handler
    trace,           \* history: nodes of the manager graph run by this invocation
    classifier,      \* history: what the router's llm.invoke returned or raised
    via,             \* history: which return statement of the router was taken
    failure,         \* history: the call whose exception ended the invocation
    hashes,          \* hash() of this process: text -> hash value
    sess,            \* concurrent invocations: session -> its position, config, context
    shadow,          \* history: namespace -> the last value put under each key
    loop,            \* a handler agent invoked on its own: its node, messages, steps
    calendar,        \* tools._CALENDAR_EVENTS: the in-memory list of events
    call             \* the last tool call made: the tool, its arguments, its result

vars == <<pc, hpc, config, input, messages, hmessages, route, memory_context,
          store, rounds, trace, classifier, via, failure, hashes, sess, shadow,
          loop, calendar, call>>

\* the state outside the manager graph: a handler run on its own, and the tools
ToolVars == <<loop, calendar, call>>

----------------------------------------------------------------------------
(* Bounds of the model *)

MaxResponses == 1
MaxToolRounds == 1

----------------------------------------------------------------------------
(* Python str operations *)

Last(s) == s[Len(s)]

Char(s, i) == SubSeq(s, i, i)

\* `t in s` for two str
Contains(s, t) ==
    \E i \in 1..(Len(s) - Len(t) + 1) : SubSeq(s, i, i + Len(t) - 1) = t

LowerChar(c) ==
    CASE c = "A" -> "a" [] c = "B" -> "b" [] c = "C" -> "c" [] c = "D" -> "d"
      [] c = "E" -> "e" [] c = "F" -> "f" [] c = "G" -> "g" [] c = "H" -> "h"
      [] c = "I" -> "i" [] c = "J" -> "j" [] c = "K" -> "k" [] c = "L" -> "l"
      [] c = "M" -> "m" [] c = "N" -> "n" [] c = "O" -> "o" [] c = "P" -> "p"
      [] c = "Q" -> "q" [] c = "R" -> "r" [] c = "S" -> "s" [] c = "T" -> "t"
      [] c = "U" -> "u" [] c = "V" -> "v" [] c = "W" -> "w" [] c = "X" -> "x"
      [] c = "Y" -> "y" [] c = "Z" -> "z" [] OTHER -> c

RECURSIVE Lower(_)
\* str.lower()
Lower(s) ==
    IF Len(s) = 0 THEN "" ELSE LowerChar(Char(s, 1)) \o Lower(SubSeq(s, 2, Len(s)))

\* the characters str.strip() removes and the regex class \s matches
IsSpace(c) == c \in {" ", "\n", "\t", "\r", "\f"}

RECURSIVE LStrip(_)
LStrip(s) ==
    IF Len(s) > 0 /\ IsSpace(Char(s, 1)) THEN LStrip(SubSeq(s, 2, Len(s))) ELSE s

RECURSIVE RStrip(_)
RStrip(s) ==
    IF Len(s) > 0 /\ IsSpace(Char(s, Len(s))) THEN RStrip(SubSeq(s, 1, Len(s) - 1)) ELSE s

\* str.strip()
Strip(s) == RStrip(LStrip(s))

RECURSIVE EscapeBody(_, _)
\* the body of repr(s) between the quotes q
EscapeBody(s, q) ==
    IF Len(s) = 0 THEN ""
    ELSE LET c == Char(s, 1)
             e == IF c = "\\" THEN "\\\\"
                  ELSE IF c = q THEN "\\" \o c
                  ELSE IF c = "\n" THEN "\\n"
                  ELSE IF c = "\t" THEN "\\t"
                  ELSE IF c = "\r" THEN "\\r"
                  ELSE c
         IN  e \o EscapeBody(SubSeq(s, 2, Len(s)), q)

\* repr() of a str: single quotes, unless the text holds a single quote and no
\* double quote
PyRepr(s) ==
    LET q == IF Contains(s, "'") /\ ~Contains(s, "\"") THEN "\"" ELSE "'"
    IN  q \o EscapeBody(s, q) \o q

RECURSIVE Join(_, _)
\* sep.join(parts)
Join(sep, parts) ==
    IF Len(parts) = 0 THEN ""
    ELSE IF Len(parts) = 1 THEN parts[1]
    ELSE parts[1] \o sep \o Join(sep, Tail(parts))

----------------------------------------------------------------------------
(* re.search(r"'name':\s*'([^']+)'", text) *)

RECURSIVE SkipSpaces(_, _)
\* \s* from position i: the first position that holds no white space
SkipSpaces(s, i) ==
    IF i <= Len(s) /\ IsSpace(Char(s, i)) THEN SkipSpaces(s, i + 1) ELSE i

RECURSIVE FindQuote(_, _)
\* the first position >= i that holds a single quote, 0 when there is none
FindQuote(s, i) ==
    IF i > Len(s) THEN 0
    ELSE IF Char(s, i) = "'" THEN i
    ELSE FindQuote(s, i + 1)

\* the pattern matched at position i: 'name': then \s* then ' then one or more
\* characters other than ' then '
NameMatchAt(s, i) ==
    IF i + 6 <= Len(s) /\ SubSeq(s, i, i + 6) = "'name':"
    THEN LET j == SkipSpaces(s, i + 7)
             k == FindQuote(s, j + 1)
         IN  IF j <= Len(s) /\ Char(s, j) = "'" /\ k > j + 1
             THEN [matched |-> TRUE, group |-> SubSeq(s, j + 1, k - 1)]
             ELSE [matched |-> FALSE, group |-> ""]
    ELSE [matched |-> FALSE, group |-> ""]

\* re.search: the leftmost match
NameSearch(s) ==
    LET hits == {i \in 1..Len(s) : NameMatchAt(s, i).matched}
    IN  IF hits = {} THEN [matched |-> FALSE, group |-> ""]
        ELSE NameMatchAt(s, CHOOSE i \in hits : \A h \in hits : i <= h)

----------------------------------------------------------------------------
(* Messages and the add_messages reducer of the "messages" channel *)

HumanMessage(id, content) ==
    [id |-> id, type |-> "human", content |-> content, tool_calls |-> 0]

AIMessage(id, content, tool_calls) ==
    [id |-> id, type |-> "ai", content |-> content, tool_calls |-> tool_calls]

ToolMessage(id, content) ==
    [id |-> id, type |-> "tool", content |-> content, tool_calls |-> 0]

\* an id no message of the list has
FreshId(msgs) ==
    IF msgs = <<>> THEN 1
    ELSE 1 + (CHOOSE n \in {msgs[i].id : i \in DOMAIN msgs} :
                 \A i \in DOMAIN msgs : msgs[i].id <= n)

RECURSIVE AssignIds(_, _)
\* add_messages gives a fresh id to each message that comes without one (id 0)
AssignIds(msgs, first) ==
    IF msgs = <<>> THEN <<>>
    ELSE IF msgs[1].id = 0
         THEN <<[msgs[1] EXCEPT !.id = first]>> \o AssignIds(Tail(msgs), first + 1)
         ELSE <<msgs[1]>> \o AssignIds(Tail(msgs), first)

RECURSIVE add_messages(_, _)
\* a message whose id is already in the list replaces it in place, any other
\* message is appended
add_messages(left, right) ==
    IF right = <<>> THEN left
    ELSE LET m == Head(right)
             at == {i \in DOMAIN left : left[i].id = m.id}
         IN  add_messages(
                 IF at = {} THEN Append(left, m)
                 ELSE [left EXCEPT ![CHOOSE i \in at : TRUE] = m],
                 Tail(right))

\* a "messages" channel declared without the reducer: an update overwrites it
MessagesChannelOverwrite(left, right) == AssignIds(right, FreshId(left))

\* the update of the "messages" channel of ManagerState by a node's return value
MessagesChannel(left, right) == add_messages(left, AssignIds(right, FreshId(left)))

IsPrefix(s, t) == Len(s) <= Len(t) /\ SubSeq(t, 1, Len(s)) = s

----------------------------------------------------------------------------
(* Records of manager_memory.py and their str() *)

NoName == <<>>

Profile(name) == [kind |-> "Profile", name |-> name, preferred_tone |-> "friendly"]

UserPreference(t, v) ==
    [kind |-> "UserPreference", preference_type |-> t, preference_value |-> v,
     importance |-> 5]

SystemInstruction(t, x) ==
    [kind |-> "SystemInstruction", instruction_type |-> t, instruction_text |-> x,
     active |-> TRUE]

Digit(d) == Char("0123456789", d + 1)

RECURSIVE NatStr(_)
NatStr(n) == IF n < 10 THEN Digit(n) ELSE NatStr(n \div 10) \o Digit(n % 10)

\* str() of an int
IntStr(n) == IF n < 0 THEN "-" \o NatStr(0 - n) ELSE NatStr(n)

\* str() of a stored value: the dict of Profile.model_dump(), or the pydantic
\* object itself for a preference or an instruction
ValueStr(v) ==
    CASE v.kind = "Profile" ->
           "{'name': " \o (IF v.name = NoName THEN "None" ELSE PyRepr(v.name[1]))
           \o ", 'preferred_tone': " \o PyRepr(v.preferred_tone)
           \o ", 'primary_interests': [], 'favorite_agents': [], "
           \o "'usage_frequency': {}, 'last_seen': None}"
      [] v.kind = "UserPreference" ->
           "preference_type=" \o PyRepr(v.preference_type)
           \o " preference_value=" \o PyRepr(v.preference_value)
           \o " importance=" \o IntStr(v.importance)
      [] v.kind = "SystemInstruction" ->
           "instruction_type=" \o PyRepr(v.instruction_type)
           \o " instruction_text=" \o PyRepr(v.instruction_text)
           \o " created_date=datetime.datetime(2026, 1, 1, 0, 0) active="
           \o (IF v.active THEN "True" ELSE "False")

----------------------------------------------------------------------------
(* The Memory Store *)

Categories == {"profile", "preferences", "instructions"}

\* config["configurable"] with no key: what main.py's run passes
NoConfigurable == [k \in {} |-> ""]

\* config["configurable"] as the callers build it: manager_agent.py passes a
\* thread_id alone, streamlit_app.py passes a user_id too, main.py passes neither
Configs == {[thread_id |-> "1"], [thread_id |-> "1", user_id |-> "alice"], NoConfigurable}

\* the configuration of the chat loop of manager_agent.py
CliConfigs == {[thread_id |-> "1"]}

\* get_user_id that looks at the thread_id first
GetUserIdThreadFirst(cfg) ==
    IF "thread_id" \in DOMAIN cfg THEN cfg.thread_id
    ELSE IF "user_id" \in DOMAIN cfg THEN cfg.user_id
    ELSE "default"

\* config["configurable"].get("user_id", config["configurable"].get("thread_id", "default"))
get_user_id(cfg) ==
    IF "user_id" \in DOMAIN cfg THEN cfg.user_id
    ELSE IF "thread_id" \in DOMAIN cfg THEN cfg.thread_id
    ELSE "default"

\* the values a config can give as the user id
UserIds == {"default"} \cup UNION {{cfg[k] : k \in DOMAIN cfg} : cfg \in Configs}

Namespaces == {<<"manager", c, u>> : c \in Categories, u \in UserIds}

EmptyStore == [ns \in Namespaces |-> <<>>]

\* store.search(namespace): the items of the namespace, in insertion order
Search(st, ns) == st[ns]

\* a put that leaves the item of a key that is already there as it is
PutIfAbsent(st, ns, key, value) ==
    IF \E i \in DOMAIN st[ns] : st[ns][i].key = key THEN st
    ELSE [st EXCEPT ![ns] = Append(@, [key |-> key, value |-> value])]

\* a put that adds an item whether or not the key is already there
PutAppend(st, ns, key, value) ==
    [st EXCEPT ![ns] = Append(@, [key |-> key, value |-> value])]

\* store.put(namespace, key, value): overwrite the item of that key, or add one
Put(st, ns, key, value) ==
    LET at == {i \in DOMAIN st[ns] : st[ns][i].key = key}
    IN  IF at = {} THEN [st EXCEPT ![ns] = Append(@, [key |-> key, value |-> value])]
        ELSE [st EXCEPT ![ns][CHOOSE i \in at : TRUE].value = value]

\* the lines "- {mem.value}" of a section, joined by newlines
SectionLines(items) == Join("\n", [i \in DOMAIN items |-> "- " \o ValueStr(items[i].value)])

\* concatenation of a sequence of sequences
RECURSIVE Concat(_)
Concat(seqs) == IF seqs = <<>> THEN <<>> ELSE Head(seqs) \o Concat(Tail(seqs))

\* a set as a sequence, in some order
RECURSIVE SetToSeq(_)
SetToSeq(S) ==
    IF S = {} THEN <<>>
    ELSE LET x == CHOOSE y \in S : TRUE IN <<x>> \o SetToSeq(S \ {x})

\* load_manager_memories that shows the default Profile() when none is stored
LoadManagerMemoriesDefaultProfile(cfg, st) ==
    LET user_id == get_user_id(cfg)
        pr == Search(st, <<"manager", "profile", user_id>>)
        pf == Search(st, <<"manager", "preferences", user_id>>)
        ins == Search(st, <<"manager", "instructions", user_id>>)
        profile == IF pr # <<>> THEN ValueStr(pr[1].value) ELSE ValueStr(Profile(NoName))
        preferences == IF pf # <<>> THEN SectionLines(pf) ELSE ""
        instructions == IF ins # <<>> THEN SectionLines(ins) ELSE ""
    IN  "\n    \n    <user_profile>\n    " \o profile
        \o "\n    </user_profile>\n    \n    <user_preferences>\n    " \o preferences
        \o "\n    </user_preferences>\n    \n    <system_instructions>\n    "
        \o instructions \o "\n    </system_instructions>\n    "

\* load_manager_memories that searches the preferences of every user
LoadManagerMemoriesAllUsers(cfg, st) ==
    LET user_id == get_user_id(cfg)
        pr == Search(st, <<"manager", "profile", user_id>>)
        pf == Concat([i \in DOMAIN SetToSeq(UserIds) |->
                        Search(st, <<"manager", "preferences", SetToSeq(UserIds)[i]>>)])
        ins == Search(st, <<"manager", "instructions", user_id>>)
        profile == IF pr # <<>> THEN ValueStr(pr[1].value) ELSE "None"
        preferences == IF pf # <<>> THEN SectionLines(pf) ELSE ""
        instructions == IF ins # <<>> THEN SectionLines(ins) ELSE ""
    IN  "\n    \n    <user_profile>\n    " \o profile
        \o "\n    </user_profile>\n    \n    <user_preferences>\n    " \o preferences
        \o "\n    </user_preferences>\n    \n    <system_instructions>\n    "
        \o instructions \o "\n    </system_instructions>\n    "

load_manager_memories(cfg, st) ==
    LET user_id == get_user_id(cfg)
        pr == Search(st, <<"manager", "profile", user_id>>)
        pf == Search(st, <<"manager", "preferences", user_id>>)
        ins == Search(st, <<"manager", "instructions", user_id>>)
        profile == IF pr # <<>> THEN ValueStr(pr[1].value) ELSE "None"
        preferences == IF pf # <<>> THEN SectionLines(pf) ELSE ""
        instructions == IF ins # <<>> THEN SectionLines(ins) ELSE ""
    IN  "\n    \n    <user_profile>\n    " \o profile
        \o "\n    </user_profile>\n    \n    <user_preferences>\n    " \o preferences
        \o "\n    </user_preferences>\n    \n    <system_instructions>\n    "
        \o instructions \o "\n    </system_instructions>\n    "

----------------------------------------------------------------------------
(* manager_agent.py: the nodes of the manager graph *)

\* a load_memory that renders the store as it was when the process started
LoadMemoryAtStart(msgs, cfg, st) ==
    [memory_context |-> load_manager_memories(cfg, EmptyStore), messages |-> msgs]

\* load_memory returns the memory context and state["messages"]
load_memory(msgs, cfg, st) ==
    [memory_context |-> load_manager_memories(cfg, st), messages |-> msgs]

\* the test on user_input of the self-query branch
IsSelfQuery(user_input) ==
    \/ Contains(Lower(user_input), "what is my name")
    \/ Contains(Lower(user_input), "who am i")

\* normal routing with the two keyword tests in the other order
NormalRoutingBudgetFirst(msgs, response) ==
    LET content == Lower(Strip(response.content))
    IN  IF Contains(content, "budget")
        THEN [route |-> "budget", messages |-> msgs, via |-> "classifier"]
        ELSE IF Contains(content, "email")
        THEN [route |-> "email", messages |-> msgs, via |-> "classifier"]
        ELSE [route |-> "end", messages |-> <<response>>, via |-> "classifier"]

\* normal routing that answers with the normalised text
NormalRoutingNormalised(msgs, response) ==
    LET content == Lower(Strip(response.content))
    IN  IF Contains(content, "email")
        THEN [route |-> "email", messages |-> msgs, via |-> "classifier"]
        ELSE IF Contains(content, "budget")
        THEN [route |-> "budget", messages |-> msgs, via |-> "classifier"]
        ELSE [route |-> "end", messages |-> <<[response EXCEPT !.content = content]>>,
              via |-> "classifier"]

\* the "Normal routing" part of manager_router
NormalRouting(msgs, response) ==
    LET content == Lower(Strip(response.content))
    IN  IF Contains(content, "email")
        THEN [route |-> "email", messages |-> msgs, via |-> "classifier"]
        ELSE IF Contains(content, "budget")
        THEN [route |-> "budget", messages |-> msgs, via |-> "classifier"]
        ELSE [route |-> "end", messages |-> <<response>>, via |-> "classifier"]

\* a manager_router that answers a self-query whenever the context has the
\* word name, with whatever the search gives
ManagerRouterNoMatchTest(msgs, ctx, response) ==
    LET user_input == Last(msgs).content
        name_match == NameSearch(ctx)
    IN  IF IsSelfQuery(user_input) /\ Contains(ctx, "name")
        THEN [route |-> "end",
              messages |-> <<AIMessage(0, "I remember you are "
                                          \o (IF name_match.matched THEN name_match.group
                                              ELSE "None") \o "!", 0)>>,
              via |-> "memory"]
        ELSE NormalRouting(msgs, response)

\* manager_router after llm.invoke has returned `response`
manager_router(msgs, ctx, response) ==
    LET user_input == Last(msgs).content
        name_match == NameSearch(ctx)
    IN  IF IsSelfQuery(user_input) /\ Contains(ctx, "name") /\ name_match.matched
        THEN [route |-> "end",
              messages |-> <<AIMessage(0, "I remember you are " \o name_match.group \o "!", 0)>>,
              via |-> "memory"]
        ELSE NormalRouting(msgs, response)

\* conditional edges that end the graph on "end"
RouterEdgesEndToEND(r) ==
    CASE r = "email" -> "email_agent"
      [] r = "budget" -> "budget_agent"
      [] r = "end" -> "done"
      [] OTHER -> "error"

\* conditional edges that send "budget" to the email handler
RouterEdgesBudgetToEmail(r) ==
    CASE r = "email" -> "email_agent"
      [] r = "budget" -> "email_agent"
      [] r = "end" -> "update_memory"
      [] OTHER -> "error"

\* the conditional edges of "router"; a route outside the mapping is an error
RouterEdges(r) ==
    CASE r = "email" -> "email_agent"
      [] r = "budget" -> "budget_agent"
      [] r = "end" -> "update_memory"
      [] OTHER -> "error"

\* a handler that hands control back to the router
HandlerEdgeToRouter(node) == "router"

\* the edges email_agent -> update_memory and budget_agent -> update_memory
HandlerEdge(node) == "update_memory"

----------------------------------------------------------------------------
(* email_agent.py, budget_agent.py: the handler sub-graph *)

Handlers == {"email_agent", "budget_agent"}

\* a should_continue that ends the handler whatever the last message is
ShouldContinueAlwaysEnd(msgs) == "end"

should_continue(msgs) == IF Last(msgs).tool_calls = 0 THEN "end" ELSE "continue"

\* model_call returns the response of the handler's llm
model_call(msgs, response) == [messages |-> <<response>>]

\* what the tools of a handler return: a result, or the text of a failure
ToolResults(node) ==
    IF node = "email_agent"
    THEN {"Successfully sent to bob@example.com", "Error reading emails: timed out"}
    ELSE IF node = "calendar_agent"
    THEN {"{'success': True, 'event_id': 'e1'}", "{'success': False, 'error': 'timed out'}"}
    ELSE {"120000.0", "Error: Exception('API error: 500 - ')"}

\* what running the tool call does.  The email tools catch their failures and
\* return the text of the error; get_budget_tool raises, and ToolNode, built
\* with its defaults, either turns the exception into the text of a tool
\* message or lets it leave the node: which one is the library's default
\* error handling, on which the code does not decide.
ToolOutcomes(node) ==
    {[raised |-> FALSE, content |-> c] : c \in ToolResults(node)}
    \cup (IF node = "budget_agent" THEN {[raised |-> TRUE, content |-> ""]} ELSE {})

\* the ToolNode: one tool message for the tool call of the last message
tool_node(msgs, result) == [messages |-> <<ToolMessage(0, result)>>]

----------------------------------------------------------------------------
(* manager_memory.py: the three update functions *)

\* the texts the update functions hash
HashedTexts == {"brief", "detailed", "always answer briefly"}

\* hash() of a str is a function of the text that is fixed for the life of the
\* process and unknown before it starts (str hashes are salted per process):
\* a process where the texts hash apart, and one where two of them collide
SeparateHashes ==
    [t \in HashedTexts |->
        CASE t = "brief" -> 1 [] t = "detailed" -> 2 [] OTHER -> 3]

CollidingHashes ==
    [t \in HashedTexts |->
        CASE t = "brief" -> 1 [] t = "detailed" -> 1 [] OTHER -> 3]

ProcessHashes == {SeparateHashes, CollidingHashes}

PyHash(s) == hashes[s]

\* for i, memory in enumerate(responses): store.put(namespace, str(i), memory.model_dump())
ProfilePuts(responses) ==
    [i \in DOMAIN responses |-> [key |-> IntStr(i - 1), value |-> responses[i]]]

\* preferences keyed by their type alone
PreferencePutsByType(prefs) ==
    [i \in DOMAIN prefs |-> [key |-> prefs[i].preference_type, value |-> prefs[i]]]

\* for pref in preferences_data.preferences: store.put(namespace, f"{type}_{hash(value)}", pref)
PreferencePuts(prefs) ==
    [i \in DOMAIN prefs |->
        [key |-> prefs[i].preference_type \o "_" \o IntStr(PyHash(prefs[i].preference_value)),
         value |-> prefs[i]]]

\* for instr in instructions_data.instructions: store.put(namespace, f"{type}_{hash(text)}", instr)
InstructionPuts(instrs) ==
    [i \in DOMAIN instrs |->
        [key |-> instrs[i].instruction_type \o "_" \o IntStr(PyHash(instrs[i].instruction_text)),
         value |-> instrs[i]]]

RECURSIVE PutAll(_, _, _)
\* the store.put calls of one loop, in the order the loop makes them
PutAll(st, ns, puts) ==
    IF puts = <<>> THEN st
    ELSE PutAll(Put(st, ns, Head(puts).key, Head(puts).value), ns, Tail(puts))

\* What the calls an update function makes do: env.search and env.put tell
\* whether store.search and the first store.put raise, env.extractor is what
\* the extractor's invoke does: [raised |-> TRUE], or its responses.
\* Each function yields the store it leaves, the call that raised, if any, and
\* the puts it made into its namespace.
NoFailure == "none"

Updated(st, ns, puts) ==
    [store |-> PutAll(st, ns, puts), failure |-> NoFailure, namespace |-> ns, puts |-> puts]

Failed(st, ns, label) ==
    [store |-> st, failure |-> label, namespace |-> ns, puts |-> <<>>]

\* update_profile_memory that numbers its keys after the items already stored
UpdateProfileMemoryAppending(msgs, cfg, st, env) ==
    LET namespace == <<"manager", "profile", get_user_id(cfg)>>
        existing_items == Search(st, namespace)
    IN  IF env.search = "raise" THEN Failed(st, namespace, "store")
        ELSE IF env.extractor.raised THEN Failed(st, namespace, "profile_extractor")
        ELSE IF env.extractor.responses # <<>>
        THEN IF env.put = "raise" THEN Failed(st, namespace, "store")
             ELSE Updated(st, namespace,
                          [i \in DOMAIN env.extractor.responses |->
                              [key |-> IntStr(Len(existing_items) + i - 1),
                               value |-> env.extractor.responses[i]]])
        ELSE Updated(st, namespace, <<>>)

\* update_profile_memory that stores an empty profile when nothing was extracted
UpdateProfileMemoryDefaultRecord(msgs, cfg, st, env) ==
    LET namespace == <<"manager", "profile", get_user_id(cfg)>>
    IN  IF env.search = "raise" THEN Failed(st, namespace, "store")
        ELSE IF env.extractor.raised THEN Failed(st, namespace, "profile_extractor")
        ELSE IF env.put = "raise" THEN Failed(st, namespace, "store")
        ELSE IF env.extractor.responses # <<>>
        THEN Updated(st, namespace, ProfilePuts(env.extractor.responses))
        ELSE Updated(st, namespace, ProfilePuts(<<Profile(NoName)>>))

update_profile_memory(msgs, cfg, st, env) ==
    LET namespace == <<"manager", "profile", get_user_id(cfg)>>
    IN  IF env.search = "raise" THEN Failed(st, namespace, "store")
        ELSE IF env.extractor.raised THEN Failed(st, namespace, "profile_extractor")
        ELSE IF env.extractor.responses # <<>>
        THEN IF env.put = "raise" THEN Failed(st, namespace, "store")
             ELSE Updated(st, namespace, ProfilePuts(env.extractor.responses))
        ELSE Updated(st, namespace, <<>>)

update_preferences_memory(msgs, cfg, st, env) ==
    LET namespace == <<"manager", "preferences", get_user_id(cfg)>>
    IN  IF env.search = "raise" THEN Failed(st, namespace, "store")
        ELSE IF env.extractor.raised THEN Failed(st, namespace, "preferences_extractor")
        ELSE IF env.extractor.responses # <<>>
                /\ env.extractor.responses[1].preferences # <<>>
        THEN IF env.put = "raise" THEN Failed(st, namespace, "store")
             ELSE Updated(st, namespace,
                          PreferencePuts(env.extractor.responses[1].preferences))
        ELSE Updated(st, namespace, <<>>)

update_instructions_memory(msgs, cfg, st, env) ==
    LET namespace == <<"manager", "instructions", get_user_id(cfg)>>
    IN  IF env.search = "raise" THEN Failed(st, namespace, "store")
        ELSE IF env.extractor.raised THEN Failed(st, namespace, "instructions_extractor")
        ELSE IF env.extractor.responses # <<>>
                /\ env.extractor.responses[1].instructions # <<>>
        THEN IF env.put = "raise" THEN Failed(st, namespace, "store")
             ELSE Updated(st, namespace,
                          InstructionPuts(env.extractor.responses[1].instructions))
        ELSE Updated(st, namespace, <<>>)

\* the record of the puts: the value last put under each key of a namespace
RECURSIVE Recorded(_, _, _)
Recorded(sh, ns, puts) ==
    IF puts = <<>> THEN sh
    ELSE Recorded([sh EXCEPT ![ns] = {e \in @ : e.key # Head(puts).key} \cup {Head(puts)}],
                  ns, Tail(puts))

----------------------------------------------------------------------------
(* What the callers pass and what the language models and the extractors answer *)

\* the callers pass the new user message; a caller may also pass earlier messages
CallerInputs ==
    { <<HumanMessage(0, "What is my name?")>>,
      <<HumanMessage(0, "hi"), AIMessage(0, "Hello!", 0), HumanMessage(0, "Tell me, WHO AM I")>>,
      <<HumanMessage(0, "Send an email to Bob")>> }

ClassifierResponses ==
    {"BUDGET, then Email", " Budget\n", "  Hello! How can I help?\n"}

ClassifierOutcomes ==
    {[raised |-> TRUE, content |-> ""]}
    \cup {[raised |-> FALSE, content |-> c] : c \in ClassifierResponses}

NotCalled == [calls |-> 0, raised |-> FALSE, content |-> ""]

\* the handler's llm answers with a final text, asks for a tool, or raises
HandlerOutcomes == {"final", "tool_call", "raise"}

ProfileRecords == {Profile(NoName), Profile(<<"Quang">>), Profile(<<"O'Neil">>)}

ExtractorRaised == [raised |-> TRUE, responses |-> <<>>]

ProfileOutcomes ==
    {ExtractorRaised}
    \cup {[raised |-> FALSE, responses |-> r] :
            r \in UNION {[1..n -> ProfileRecords] : n \in 0..MaxResponses}}

PreferencesOutcomes ==
    {ExtractorRaised}
    \cup {[raised |-> FALSE, responses |-> r] :
            r \in { <<>>,
                    <<[preferences |-> <<>>]>>,
                    <<[preferences |-> <<UserPreference("verbosity", "brief")>>]>> }}

InstructionsOutcomes ==
    {ExtractorRaised}
    \cup {[raised |-> FALSE, responses |-> r] :
            r \in { <<>>,
                    <<[instructions |-> <<SystemInstruction("routing", "always answer briefly")>>]>> }}

\* the store calls of an update function work, or one of them raises
UpdateEnvs(outcomes) ==
    {[search |-> "ok", put |-> "ok", extractor |-> e] : e \in outcomes}
    \cup {[search |-> "raise", put |-> "ok", extractor |-> ExtractorRaised]}
    \cup {[search |-> "ok", put |-> "raise", extractor |-> e] :
            e \in {o \in outcomes : o.responses # <<>>}}

----------------------------------------------------------------------------
(* The state machine *)

Sessions == {"A", "B"}

\* a session between two invocations
IdleSession == [pc |-> "idle", config |-> [thread_id |-> "1"], memory_context |-> ""]

EmptyShadow == [ns \in Namespaces |-> {}]

\* no handler agent has been invoked on its own
IdleLoop == [agent |-> "none", node |-> "idle", messages |-> <<>>, steps |-> 0,
             failure |-> NoFailure]

\* no tool has been called
NoCall == [tool |-> "none", args |-> <<>>, raised |-> FALSE, result |-> <<>>]

\* the state of a process that has built the graph and the empty store
InitWith(hs) ==
    /\ hashes \in hs
    /\ sess = [s \in Sessions |-> IdleSession]
    /\ shadow = EmptyShadow
    /\ pc = "idle"
    /\ hpc = "off"
    /\ config = [thread_id |-> "1"]
    /\ input = <<>>
    /\ messages = <<>>
    /\ hmessages = <<>>
    /\ route = ""
    /\ memory_context = ""
    /\ store = EmptyStore
    /\ rounds = 0
    /\ trace = <<>>
    /\ classifier = NotCalled
    /\ via = "none"
    /\ failure = NoFailure
    /\ loop = IdleLoop
    /\ calendar = <<>>
    /\ call = NoCall

Init == InitWith({SeparateHashes})

\* an exception leaves the invocation: the caller gets no state back
Raise(label) ==
    /\ pc' = "error"
    /\ failure' = label
    /\ hpc' = "off"
    /\ input' = <<>>
    /\ messages' = <<>>
    /\ hmessages' = <<>>
    /\ route' = ""
    /\ memory_context' = ""
    /\ via' = "none"

\* manager_agent.invoke(inputs, config): the graph has no checkpointer, so the
\* state of an invocation starts from its input alone
InvokeWith(cfgs, inputs) ==
    /\ pc \in {"idle", "done", "error"}
    /\ \E cfg \in cfgs, inp \in inputs :
          /\ config' = cfg
          /\ input' = MessagesChannel(<<>>, inp)
          /\ messages' = MessagesChannel(<<>>, inp)
    /\ pc' = "load_memory"
    /\ hpc' = "off"
    /\ hmessages' = <<>>
    /\ route' = ""
    /\ memory_context' = ""
    /\ rounds' = 0
    /\ trace' = <<>>
    /\ classifier' = NotCalled
    /\ via' = "none"
    /\ failure' = NoFailure
    /\ UNCHANGED <<store, hashes, sess, shadow, ToolVars>>

Invoke == InvokeWith(CliConfigs, CallerInputs)

LoadMemory ==
    /\ pc = "load_memory"
    /\ LET out == load_memory(messages, config, store)
       IN  /\ memory_context' = out.memory_context
           /\ messages' = MessagesChannel(messages, out.messages)
    /\ pc' = "router"
    /\ trace' = Append(trace, "load_memory")
    /\ UNCHANGED <<hpc, config, input, hmessages, route, store, rounds,
                   classifier, via, failure, hashes, sess, shadow, ToolVars>>

\* manager_router and the conditional edges that follow it; llm.invoke is the
\* first call the router makes, whatever the message is
Router ==
    /\ pc = "router"
    /\ trace' = Append(trace, "router")
    /\ \E o \in ClassifierOutcomes :
          /\ classifier' = [calls |-> classifier.calls + 1, raised |-> o.raised,
                            content |-> o.content]
          /\ IF o.raised
             THEN Raise("classifier")
             ELSE LET out == manager_router(messages, memory_context,
                                            AIMessage(FreshId(messages), o.content, 0))
                      next == RouterEdges(out.route)
                      after == MessagesChannel(messages, out.messages)
                  IN  /\ messages' = after
                      /\ route' = out.route
                      /\ via' = out.via
                      /\ pc' = next
                      /\ hpc' = IF next \in Handlers THEN "llm" ELSE "off"
                      /\ hmessages' = IF next \in Handlers THEN after ELSE <<>>
                      /\ UNCHANGED <<failure, input, memory_context>>
    /\ UNCHANGED <<config, store, rounds, hashes, sess, shadow, ToolVars>>

\* the "llm" node of the handler and its conditional edge; when the handler
\* ends, its messages go back into the manager's channel
HandlerModelCall ==
    /\ pc \in Handlers
    /\ hpc = "llm"
    /\ trace' = IF Last(trace) = pc THEN trace ELSE Append(trace, pc)
    /\ \E o \in HandlerOutcomes :
          /\ o = "tool_call" => rounds < MaxToolRounds
          /\ IF o = "raise"
             THEN Raise("handler_llm")
             ELSE LET response == IF o = "final"
                                  THEN AIMessage(FreshId(hmessages), "Here is the result.", 0)
                                  ELSE AIMessage(FreshId(hmessages), "", 1)
                      out == model_call(hmessages, response)
                      after == MessagesChannel(hmessages, out.messages)
                  IN  /\ hmessages' = after
                      /\ IF should_continue(after) = "end"
                         THEN /\ messages' = MessagesChannel(messages, after)
                              /\ pc' = HandlerEdge(pc)
                              /\ hpc' = "off"
                         ELSE /\ hpc' = "tools"
                              /\ UNCHANGED <<messages, pc>>
                      /\ UNCHANGED <<failure, input, route, memory_context, via>>
    /\ UNCHANGED <<config, store, rounds, classifier, hashes, sess, shadow, ToolVars>>

\* the "tools" node of the handler and the edge back to "llm"
HandlerTools ==
    /\ pc \in Handlers
    /\ hpc = "tools"
    /\ \E o \in ToolOutcomes(pc) :
          IF o.raised
          THEN Raise("tool") /\ UNCHANGED rounds
          ELSE /\ hmessages' = MessagesChannel(hmessages,
                                               tool_node(hmessages, o.content).messages)
               /\ hpc' = "llm"
               /\ rounds' = rounds + 1
               /\ UNCHANGED <<pc, input, messages, route, memory_context, via, failure>>
    /\ UNCHANGED <<config, store, trace, classifier, hashes, sess, shadow, ToolVars>>

\* an update_memory that returns the status string of the last update
UpdateMemoryReturnStatus(st, sh) ==
    /\ store' = st
    /\ shadow' = sh
    /\ pc' = "done"
    /\ messages' = MessagesChannel(messages, <<HumanMessage(0, "Instructions updated: 0 changes")>>)
    /\ UNCHANGED <<hpc, input, hmessages, route, memory_context, via, failure>>

\* update_memory returns state["messages"] when the three updates have run
UpdateMemoryReturn(st, sh) ==
    /\ store' = st
    /\ shadow' = sh
    /\ pc' = "done"
    /\ messages' = MessagesChannel(messages, messages)
    /\ UNCHANGED <<hpc, input, hmessages, route, memory_context, via, failure>>

\* an update raised: the node ends with the store as the earlier puts left it
UpdateMemoryRaise(st, sh, label) ==
    /\ store' = st
    /\ shadow' = sh
    /\ Raise(label)

\* update_memory: the three updates in turn, and the edge to END
UpdateMemory ==
    /\ pc = "update_memory"
    /\ trace' = Append(trace, "update_memory")
    /\ \E r1 \in {update_profile_memory(messages, config, store, e) :
                    e \in UpdateEnvs(ProfileOutcomes)} :
        LET sh1 == Recorded(shadow, r1.namespace, r1.puts)
        IN  IF r1.failure # NoFailure THEN UpdateMemoryRaise(r1.store, sh1, r1.failure)
            ELSE \E r2 \in {update_preferences_memory(messages, config, r1.store, e) :
                              e \in UpdateEnvs(PreferencesOutcomes)} :
                LET sh2 == Recorded(sh1, r2.namespace, r2.puts)
                IN  IF r2.failure # NoFailure
                    THEN UpdateMemoryRaise(r2.store, sh2, r2.failure)
                    ELSE \E r3 \in {update_instructions_memory(messages, config, r2.store, e) :
                                      e \in UpdateEnvs(InstructionsOutcomes)} :
                        LET sh3 == Recorded(sh2, r3.namespace, r3.puts)
                        IN  IF r3.failure # NoFailure
                            THEN UpdateMemoryRaise(r3.store, sh3, r3.failure)
                            ELSE UpdateMemoryReturn(r3.store, sh3)
    /\ UNCHANGED <<config, rounds, classifier, hashes, sess, ToolVars>>

Next ==
    \/ Invoke
    \/ LoadMemory
    \/ Router
    \/ HandlerModelCall
    \/ HandlerTools
    \/ UpdateMemory

Spec == Init /\ [][Next]_vars

----------------------------------------------------------------------------
(* Concurrent invocations on the one store.  Each session runs the steps of *)
(* an invocation that touch the memory: load_memory, the router and handler *)
(* (which leave the store alone), and the three updates of update_memory;   *)
(* the steps of different sessions interleave.                              *)

ManagerVars == <<pc, hpc, config, input, messages, hmessages, route, memory_context,
                 rounds, trace, classifier, via, failure>>

\* manager_agent.invoke and the load_memory node
SessLoadMemory(s, cfgs) ==
    /\ sess[s].pc = "idle"
    /\ \E cfg \in cfgs :
          sess' = [sess EXCEPT ![s] =
                      [pc |-> "router", config |-> cfg,
                       memory_context |-> load_memory(<<>>, cfg, store).memory_context]]
    /\ UNCHANGED <<store, shadow, hashes, ManagerVars, ToolVars>>

\* the router and the handler of the route: they use the memory context
SessRouter(s) ==
    /\ sess[s].pc = "router"
    /\ sess' = [sess EXCEPT ![s].pc = "update_profile", ![s].memory_context = ""]
    /\ UNCHANGED <<store, shadow, hashes, ManagerVars, ToolVars>>

\* what an update function leaves: the store, and the session at the next
\* update, or idle when the update raised or was the last one
SessUpdated(s, r, next) ==
    /\ store' = r.store
    /\ shadow' = Recorded(shadow, r.namespace, r.puts)
    /\ sess' = [sess EXCEPT ![s] =
                   IF r.failure # NoFailure \/ next = "idle" THEN IdleSession
                   ELSE [@ EXCEPT !.pc = next]]
    /\ UNCHANGED <<hashes, ManagerVars, ToolVars>>

SessUpdateProfile(s, outcomes) ==
    /\ sess[s].pc = "update_profile"
    /\ \E r \in {update_profile_memory(<<>>, sess[s].config, store, e) :
                   e \in UpdateEnvs(outcomes)} :
          SessUpdated(s, r, "update_preferences")

SessUpdatePreferences(s, outcomes) ==
    /\ sess[s].pc = "update_preferences"
    /\ \E r \in {update_preferences_memory(<<>>, sess[s].config, store, e) :
                   e \in UpdateEnvs(outcomes)} :
          SessUpdated(s, r, "update_instructions")

SessUpdateInstructions(s, outcomes) ==
    /\ sess[s].pc = "update_instructions"
    /\ \E r \in {update_instructions_memory(<<>>, sess[s].config, store, e) :
                   e \in UpdateEnvs(outcomes)} :
          SessUpdated(s, r, "idle")

Answered(responses) == [raised |-> FALSE, responses |-> responses]

\* two users at once: the extractors find nothing or one record
UsersProfileOutcomes == {Answered(<<>>), Answered(<<Profile(<<"Quang">>)>>)}

UsersPreferencesOutcomes ==
    {Answered(<<>>), Answered(<<[preferences |-> <<UserPreference("verbosity", "brief")>>]>>)}

UsersInstructionsOutcomes ==
    {Answered(<<>>),
     Answered(<<[instructions |-> <<SystemInstruction("routing", "always answer briefly")>>]>>)}

\* session A is a command-line chat loop, session B a browser session that
\* passes its user_id
SessionConfigs(s) ==
    IF s = "A" THEN {[thread_id |-> "1"], NoConfigurable}
    ELSE {[thread_id |-> "1", user_id |-> "alice"]}

UsersNext ==
    \E s \in Sessions :
        \/ SessLoadMemory(s, SessionConfigs(s))
        \/ SessRouter(s)
        \/ SessUpdateProfile(s, UsersProfileOutcomes)
        \/ SessUpdatePreferences(s, UsersPreferencesOutcomes)
        \/ SessUpdateInstructions(s, UsersInstructionsOutcomes)

SpecUsers == Init /\ [][UsersNext]_vars

\* one user, turn after turn: the extractors return several records, records
\* that repeat, and records that differ in type or in value
MemoryProfileOutcomes ==
    {ExtractorRaised, Answered(<<>>), Answered(<<Profile(<<"Quang">>)>>),
     Answered(<<Profile(NoName)>>),
     Answered(<<Profile(<<"O'Neil">>), Profile(<<"Quang">>)>>)}

MemoryPreferences ==
    {UserPreference("verbosity", "brief"), UserPreference("verbosity", "detailed"),
     UserPreference("tone", "brief")}

MemoryPreferencesOutcomes ==
    {ExtractorRaised, Answered(<<>>),
     Answered(<<[preferences |-> <<UserPreference("verbosity", "brief"),
                                   UserPreference("verbosity", "brief")>>]>>)}
    \cup {Answered(<<[preferences |-> <<p>>]>>) : p \in MemoryPreferences}

MemoryInstructionsOutcomes ==
    {ExtractorRaised, Answered(<<>>),
     Answered(<<[instructions |-> <<SystemInstruction("routing", "always answer briefly")>>]>>),
     Answered(<<[instructions |-> <<SystemInstruction("format", "always answer briefly"),
                                    SystemInstruction("format", "always answer briefly")>>]>>)}

MemoryInit == InitWith(ProcessHashes)

MemoryNext ==
    \/ SessLoadMemory("A", CliConfigs)
    \/ SessRouter("A")
    \/ SessUpdateProfile("A", MemoryProfileOutcomes)
    \/ SessUpdatePreferences("A", MemoryPreferencesOutcomes)
    \/ SessUpdateInstructions("A", MemoryInstructionsOutcomes)

SpecMemory == MemoryInit /\ [][MemoryNext]_vars

----------------------------------------------------------------------------
(* A handler agent invoked on its own: email_agent.invoke, budget_agent.invoke, *)
(* calendar_agent.invoke.  The three graphs are the same llm/tools loop;   *)
(* none of them bounds the number of tool rounds.                          *)

PipelineVars == <<ManagerVars, store, hashes, sess, shadow>>

LoopAgents == {"email_agent", "budget_agent", "calendar_agent"}

\* the number of steps after which a compiled graph gives up with a
\* GraphRecursionError: the library's default, which no caller overrides
RecursionLimit == 25

LoopInputs ==
    {<<HumanMessage(0, "Get me the budget details for account number 3211555699.")>>,
     <<HumanMessage(0, "What events do I have today?")>>}

\* agent.invoke(inputs): the graph starts at its entry point "llm"
LoopInvoke ==
    /\ loop.node = "idle"
    /\ \E a \in LoopAgents, inp \in LoopInputs :
          loop' = [agent |-> a, node |-> "llm", messages |-> MessagesChannel(<<>>, inp),
                   steps |-> 0, failure |-> NoFailure]
    /\ UNCHANGED <<PipelineVars, calendar, call>>

\* the "llm" node and the conditional edge on should_continue
LoopModelCall ==
    /\ loop.node = "llm"
    /\ loop.steps < RecursionLimit
    /\ \E o \in HandlerOutcomes :
          IF o = "raise"
          THEN loop' = [loop EXCEPT !.node = "error", !.failure = "handler_llm"]
          ELSE LET response == IF o = "final"
                               THEN AIMessage(FreshId(loop.messages), "Here is the result.", 0)
                               ELSE AIMessage(FreshId(loop.messages), "", 1)
                   after == MessagesChannel(loop.messages,
                                            model_call(loop.messages, response).messages)
               IN  loop' = [loop EXCEPT !.messages = after,
                                        !.steps = @ + 1,
                                        !.node = IF should_continue(after) = "end"
                                                 THEN "done" ELSE "tools"]
    /\ UNCHANGED <<PipelineVars, calendar, call>>

\* the model asks for the same tool call at every round of an invocation, and
\* the tool answers it the same way each time it returns
SameResult(msgs, o) ==
    \A i \in DOMAIN msgs : msgs[i].type = "tool" => msgs[i].content = o.content

\* the "tools" node and the edge back to "llm"
LoopTools ==
    /\ loop.node = "tools"
    /\ loop.steps < RecursionLimit
    /\ \E o \in {r \in ToolOutcomes(loop.agent) : r.raised \/ SameResult(loop.messages, r)} :
          IF o.raised
          THEN loop' = [loop EXCEPT !.node = "error", !.failure = "tool"]
          ELSE loop' = [loop EXCEPT
                           !.messages = MessagesChannel(loop.messages,
                                            tool_node(loop.messages, o.content).messages),
                           !.steps = @ + 1,
                           !.node = "llm"]
    /\ UNCHANGED <<PipelineVars, calendar, call>>

\* the graph has a node to run and no step left: invoke raises
LoopOutOfSteps ==
    /\ loop.node \in {"llm", "tools"}
    /\ loop.steps >= RecursionLimit
    /\ loop' = [loop EXCEPT !.node = "error", !.failure = "recursion_limit"]
    /\ UNCHANGED <<PipelineVars, calendar, call>>

LoopNext ==
    \/ LoopInvoke
    \/ LoopModelCall
    \/ LoopTools
    \/ LoopOutOfSteps

\* an invocation that can take a step takes it: invoke is a synchronous call
SpecLoop == Init /\ [][LoopNext]_vars /\ WF_vars(LoopNext)

----------------------------------------------------------------------------
(* Python datetime, as tools.py and calendar_agent.py use it.  A datetime  *)
(* is its fields; it is aware when it carries a UTC offset, in minutes.     *)

IsDigit(c) == \E d \in 0..9 : Digit(d) = c

DigitVal(c) == CHOOSE d \in 0..9 : Digit(d) = c

\* the number written by the n characters of s from position i, or -1
RECURSIVE Num(_, _, _)
Num(s, i, n) ==
    IF n = 0 THEN 0
    ELSE IF i + n - 1 > Len(s) \/ ~IsDigit(Char(s, i + n - 1)) THEN -1
    ELSE LET rest == Num(s, i, n - 1)
         IN  IF rest = -1 THEN -1 ELSE rest * 10 + DigitVal(Char(s, i + n - 1))

\* str.replace(old, new) for a one-character old
RECURSIVE Replace(_, _, _)
Replace(s, old, new) ==
    IF s = "" THEN ""
    ELSE (IF Char(s, 1) = old THEN new ELSE Char(s, 1))
         \o Replace(SubSeq(s, 2, Len(s)), old, new)

IsLeap(y) == (y % 4 = 0 /\ y % 100 # 0) \/ y % 400 = 0

DaysInMonth(y, m) ==
    IF m = 2 THEN (IF IsLeap(y) THEN 29 ELSE 28)
    ELSE IF m \in {4, 6, 9, 11} THEN 30 ELSE 31

RECURSIVE DaysBeforeMonth(_, _)
DaysBeforeMonth(y, m) ==
    IF m = 1 THEN 0 ELSE DaysBeforeMonth(y, m - 1) + DaysInMonth(y, m - 1)

\* date.toordinal(): the day number in the proleptic Gregorian calendar
Ordinal(y, m, d) ==
    365 * (y - 1) + (y - 1) \div 4 - (y - 1) \div 100 + (y - 1) \div 400
    + DaysBeforeMonth(y, m) + d

DateTime(y, m, d, hh, mi, ss, aware, off) ==
    [year |-> y, month |-> m, day |-> d, hour |-> hh, minute |-> mi, second |-> ss,
     aware |-> aware, off |-> off]

NotParsed == [ok |-> FALSE]

\* the UTC offset written from position i to the end of s: +HH:MM or -HH:MM
ParseOffset(s, i) ==
    LET hh == Num(s, i + 1, 2)
        mm == Num(s, i + 4, 2)
    IN  IF /\ Len(s) = i + 5
           /\ Char(s, i) \in {"+", "-"}
           /\ Char(s, i + 3) = ":"
           /\ hh \in 0..23
           /\ mm \in 0..59
        THEN [ok |-> TRUE, off |-> (IF Char(s, i) = "-" THEN -1 ELSE 1) * (hh * 60 + mm)]
        ELSE NotParsed

\* datetime.fromisoformat(s) for the forms YYYY-MM-DD, and YYYY-MM-DD, any one
\* character, HH:MM or HH:MM:SS, with or without a UTC offset; [ok |-> FALSE]
\* stands for the ValueError
fromisoformat(s) ==
    LET y == Num(s, 1, 4)
        m == Num(s, 6, 2)
        d == Num(s, 9, 2)
        hh == Num(s, 12, 2)
        mi == Num(s, 15, 2)
        hasSec == Len(s) >= 19 /\ Char(s, 17) = ":"
        ss == IF hasSec THEN Num(s, 18, 2) ELSE 0
        timeEnd == IF hasSec THEN 19 ELSE 16
        offset == IF Len(s) > timeEnd THEN ParseOffset(s, timeEnd + 1)
                  ELSE [ok |-> TRUE, off |-> 0]
    IN  IF ~(/\ Len(s) >= 10
             /\ y >= 1
             /\ Char(s, 5) = "-"
             /\ m \in 1..12
             /\ Char(s, 8) = "-"
             /\ d >= 1
             /\ d <= DaysInMonth(y, m))
        THEN NotParsed
        ELSE IF Len(s) = 10
        THEN [ok |-> TRUE, value |-> DateTime(y, m, d, 0, 0, 0, FALSE, 0)]
        ELSE IF /\ Len(s) >= 16
                /\ hh \in 0..23
                /\ Char(s, 14) = ":"
                /\ mi \in 0..59
                /\ ss \in 0..59
                /\ offset.ok
        THEN [ok |-> TRUE,
              value |-> DateTime(y, m, d, hh, mi, ss, Len(s) > timeEnd, offset.off)]
        ELSE NotParsed

\* datetime.strptime(s, "%Y-%m-%d") for a date written with two-digit month and day
strptime(s) == IF Len(s) = 10 THEN fromisoformat(s) ELSE NotParsed

Pad2(n) == IF n < 10 THEN "0" \o NatStr(n) ELSE NatStr(n)

Pad4(n) ==
    IF n < 10 THEN "000" \o NatStr(n)
    ELSE IF n < 100 THEN "00" \o NatStr(n)
    ELSE IF n < 1000 THEN "0" \o NatStr(n) ELSE NatStr(n)

\* datetime.isoformat() of a datetime with no microseconds
isoformat(dt) ==
    Pad4(dt.year) \o "-" \o Pad2(dt.month) \o "-" \o Pad2(dt.day) \o "T"
    \o Pad2(dt.hour) \o ":" \o Pad2(dt.minute) \o ":" \o Pad2(dt.second)
    \o (IF ~dt.aware THEN ""
        ELSE (IF dt.off < 0 THEN "-" ELSE "+")
             \o Pad2((IF dt.off < 0 THEN 0 - dt.off ELSE dt.off) \div 60) \o ":"
             \o Pad2((IF dt.off < 0 THEN 0 - dt.off ELSE dt.off) % 60))

\* datetime.date(): the calendar date of the datetime's own fields
DateOf(dt) == <<dt.year, dt.month, dt.day>>

\* the seconds from 2026-01-01T00:00:00 (UTC for an aware datetime) to dt; two
\* datetimes are subtracted and compared through it
Seconds(dt) ==
    ((Ordinal(dt.year, dt.month, dt.day) - Ordinal(2026, 1, 1)) * 1440
     + dt.hour * 60 + dt.minute - dt.off) * 60 + dt.second

\* subtracting or comparing a naive and an aware datetime raises TypeError
Comparable(a, b) == a.aware = b.aware

Abs(n) == IF n < 0 THEN 0 - n ELSE n

\* the day after a date
NextDay(dt) ==
    IF dt.day < DaysInMonth(dt.year, dt.month) THEN [dt EXCEPT !.day = @ + 1]
    ELSE IF dt.month < 12 THEN [dt EXCEPT !.day = 1, !.month = @ + 1]
    ELSE [dt EXCEPT !.day = 1, !.month = 1, !.year = @ + 1]

\* dt + timedelta(minutes=n), n >= 0
RECURSIVE AddMinutes(_, _)
AddMinutes(dt, n) ==
    LET total == dt.hour * 60 + dt.minute + n
    IN  IF total < 1440 THEN [dt EXCEPT !.hour = total \div 60, !.minute = total % 60]
        ELSE AddMinutes(NextDay([dt EXCEPT !.hour = 0, !.minute = 0]), total - 1440)

----------------------------------------------------------------------------
(* tools.py: fetch_emails_tool *)

MaxK == 3
MaxMailbox == 3

\* seq[-k:] of Python, for an int k
SliceLast(seq, k) ==
    LET n == Len(seq)
        start == IF 0 - k < 0 THEN (IF n - k < 0 THEN 0 ELSE n - k)
                 ELSE (IF 0 - k > n THEN n ELSE 0 - k)
    IN  SubSeq(seq, start + 1, n)

\* seq[::-1]
Reversed(seq) == [i \in 1..Len(seq) |-> seq[Len(seq) + 1 - i]]

\* the end of the run of characters of s from i that are not whitespace
RECURSIVE TokenEnd(_, _)
TokenEnd(s, i) == IF i > Len(s) \/ IsSpace(Char(s, i)) THEN i - 1 ELSE TokenEnd(s, i + 1)

\* split() with no argument: the runs of characters between whitespace
RECURSIVE Split(_)
Split(s) ==
    IF s = "" THEN <<>>
    ELSE IF IsSpace(Char(s, 1)) THEN Split(SubSeq(s, 2, Len(s)))
    ELSE <<SubSeq(s, 1, TokenEnd(s, 1))>> \o Split(SubSeq(s, TokenEnd(s, 1) + 1, Len(s)))

Senders == {"an@hus.edu.vn", "binh@hus.edu.vn"}

\* INBOX: message number i is from mailbox[i]
Mailboxes == UNION {[1..n -> Senders] : n \in 0..MaxMailbox}

\* target_email: "" stands for None
Targets == {"", "an@hus.edu.vn"}

\* what the mail server does: login works or raises, SEARCH is answered OK or
\* NO, FETCH works or raises
MailServers ==
    {[mailbox |-> mb, login |-> "ok", search |-> "OK", fetch |-> "ok"] : mb \in Mailboxes}
    \cup {[mailbox |-> <<"an@hus.edu.vn", "binh@hus.edu.vn">>, login |-> l, search |-> st,
           fetch |-> f] :
            l \in {"ok", "raise"}, st \in {"OK", "NO"}, f \in {"ok", "raise"}}

\* the numbers of the messages of the mailbox that match the query, ascending
RECURSIVE Matching(_, _, _)
Matching(mailbox, target, i) ==
    IF i > Len(mailbox) THEN <<>>
    ELSE (IF target = "" \/ Contains(mailbox[i], target) THEN <<i>> ELSE <<>>)
         \o Matching(mailbox, target, i + 1)

\* imap.search(None, query): messages[0], the matching numbers in one line
ImapSearch(server, target) ==
    LET ids == Matching(server.mailbox, target, 1)
    IN  IF server.search = "OK" THEN Join(" ", [i \in DOMAIN ids |-> NatStr(ids[i])]) ELSE ""

\* imap.fetch(mail_id, "(RFC822)") and the dict built from the message
FetchedEmail(server, mail_id) ==
    [from |-> server.mailbox[Num(mail_id, 1, Len(mail_id))],
     subject |-> "Message " \o mail_id,
     content |-> "Hello",
     id |-> mail_id]

ErrorReadingEmails(text) == <<"Error reading emails: " \o text>>

fetch_emails_tool(k, target_email, server) ==
    IF server.login = "raise" THEN ErrorReadingEmails("b'[AUTHENTICATIONFAILED]'")
    ELSE LET data == ImapSearch(server, target_email)
         IN  IF server.search = "OK" /\ data # ""
             THEN LET ids == Reversed(SliceLast(Split(data), k))
                  IN  IF ids # <<>> /\ server.fetch = "raise"
                      THEN ErrorReadingEmails("socket error: EOF")
                      ELSE [i \in DOMAIN ids |-> FetchedEmail(server, ids[i])]
             ELSE <<>>

----------------------------------------------------------------------------
(* tools.py: the in-memory calendar and schedule_event_tool.  The symbol    *)
(* that starts each message of the tool is left out of the texts.           *)

Titles == {"Team Sync"}

\* datetime_str: the documented form, ISO forms with T, seconds, Z and a UTC
\* offset, and a text that is no date
DatetimeStrings ==
    {"2026-01-05 09:00", "2026-01-05T09:20:00", "2026-01-05 09:30", "2026-01-05 23:50",
     "2026-01-06 00:10", "2026-01-05T09:00:00Z", "2026-01-05T16:10:00+07:00",
     "tomorrow at 2 PM"}

\* the scan of the stored events for a conflict with event_time, from event i:
\* the outcome of the loop, and the title of the conflicting event
RECURSIVE ConflictScan(_, _, _)
ConflictScan(events, i, event_time) ==
    IF i > Len(events) THEN [outcome |-> "free", title |-> ""]
    ELSE LET existing == fromisoformat(events[i].datetime)
         IN  IF ~existing.ok THEN [outcome |-> "ValueError", title |-> ""]
             ELSE IF ~Comparable(event_time, existing.value)
             THEN [outcome |-> "TypeError", title |-> ""]
             ELSE IF /\ Abs(Seconds(event_time) - Seconds(existing.value)) < 30 * 60
                     /\ DateOf(existing.value) = DateOf(event_time)
             THEN [outcome |-> "conflict", title |-> events[i].title]
             ELSE ConflictScan(events, i + 1, event_time)

\* what a call leaves in _CALENDAR_EVENTS and returns, the scan starting at `first`
ScheduleFrom(first, events, title, datetime_str, duration_minutes, description) ==
    LET parsed == fromisoformat(Replace(datetime_str, "Z", "+00:00"))
        scan == ConflictScan(events, first, parsed.value)
    IN  IF ~parsed.ok
        THEN [events |-> events,
              result |-> "Error scheduling event: Invalid isoformat string: "
                         \o PyRepr(datetime_str)]
        ELSE IF scan.outcome = "ValueError"
        THEN [events |-> events,
              result |-> "Error scheduling event: Invalid isoformat string"]
        ELSE IF scan.outcome = "TypeError"
        THEN [events |-> events,
              result |-> "Error scheduling event: can't subtract offset-naive and "
                         \o "offset-aware datetimes"]
        ELSE IF scan.outcome = "conflict"
        THEN [events |-> events,
              result |-> "Potential conflict: You have '" \o scan.title
                         \o "' scheduled close to this time."]
        ELSE [events |-> Append(events,
                                [title |-> title, datetime |-> isoformat(parsed.value),
                                 duration_minutes |-> duration_minutes,
                                 description |-> description]),
              result |-> "Event scheduled: '" \o title \o "' on " \o datetime_str
                         \o " for " \o NatStr(duration_minutes) \o " minutes"]

\* a schedule_event_tool that looks for a conflict with the last event only
ScheduleEventToolLastOnly(events, title, datetime_str, duration_minutes, description) ==
    ScheduleFrom(IF events = <<>> THEN 1 ELSE Len(events), events, title, datetime_str,
                 duration_minutes, description)

schedule_event_tool(events, title, datetime_str, duration_minutes, description) ==
    ScheduleFrom(1, events, title, datetime_str, duration_minutes, description)

----------------------------------------------------------------------------
(* calendar_agent.py: find_free_slots_tool *)

Dates == {"2026-01-05", "next Monday"}

Durations == {30, 60, 120}

\* what calendar_client.get_events returns for the day: no event, events with
\* a time (their dateTime carries the calendar's UTC offset), all-day events
\* (their date), on the day or on the next day, which the query window, taken
\* as UTC, also covers in a calendar east of UTC
AllDay(start, end) == [summary |-> "Holiday", start |-> start, end |-> end]

Meeting(start, end) == [summary |-> "Meeting", start |-> start, end |-> end]

EventLists ==
    { <<>>,
      <<AllDay("2026-01-05", "2026-01-06")>>,
      <<AllDay("2026-01-06", "2026-01-07")>>,
      <<Meeting("2026-01-05T09:00:00+07:00", "2026-01-05T10:00:00+07:00")>>,
      <<Meeting("2026-01-05T09:00:00Z", "2026-01-05T10:00:00Z")>>,
      <<AllDay("2026-01-05", "2026-01-06"), AllDay("2026-01-06", "2026-01-07")>>,
      <<AllDay("2026-01-06", "2026-01-07"), AllDay("2026-01-05", "2026-01-06")>>,
      <<AllDay("2026-01-05", "2026-01-06"),
        Meeting("2026-01-05T09:00:00+07:00", "2026-01-05T10:00:00+07:00")>> }

from_iso(iso_str) == fromisoformat(Replace(iso_str, "Z", "+00:00"))

\* the busy slots of the events whose start and end both parse
RECURSIVE BusySlots(_)
BusySlots(events) ==
    IF events = <<>> THEN <<>>
    ELSE LET event == Head(events)
             start == from_iso(event.start)
             end == from_iso(event.end)
         IN  (IF /\ "start" \in DOMAIN event
                 /\ "end" \in DOMAIN event
                 /\ start.ok
                 /\ end.ok
              THEN <<[start |-> start.value, end |-> end.value]>>
              ELSE <<>>)
             \o BusySlots(Tail(events))

\* list.sort(key=start): a stable sort; it compares the starts two by two
RECURSIVE InsertSlot(_, _)
InsertSlot(sorted, slot) ==
    IF sorted = <<>> THEN <<slot>>
    ELSE IF Seconds(slot.start) < Seconds(Last(sorted).start)
    THEN Append(InsertSlot(SubSeq(sorted, 1, Len(sorted) - 1), slot), Last(sorted))
    ELSE Append(sorted, slot)

RECURSIVE SortByStart(_)
SortByStart(slots) ==
    IF slots = <<>> THEN <<>>
    ELSE InsertSlot(SortByStart(SubSeq(slots, 1, Len(slots) - 1)), Last(slots))

Slot(current_time, duration_minutes) ==
    [start |-> isoformat(current_time),
     end |-> isoformat(AddMinutes(current_time, duration_minutes)),
     duration_minutes |-> duration_minutes]

\* while current_time + slot_duration <= limit: append the slot and step 30
\* minutes.  The loop before a busy period appends when current_time >=
\* work_start; in the loop after the last event current_time is never before
\* work_start.
RECURSIVE SlotsUpTo(_, _, _, _, _)
SlotsUpTo(free_slots, current_time, duration_minutes, limit, work_start) ==
    IF Seconds(AddMinutes(current_time, duration_minutes)) <= Seconds(limit)
    THEN SlotsUpTo(IF Seconds(current_time) >= Seconds(work_start)
                   THEN Append(free_slots, Slot(current_time, duration_minutes))
                   ELSE free_slots,
                   AddMinutes(current_time, 30), duration_minutes, limit, work_start)
    ELSE [free_slots |-> free_slots, current_time |-> current_time]

\* for busy in busy_slots: the slots before each busy period, and the move
\* past it; raised when a naive and an aware datetime are compared
RECURSIVE Gaps(_, _, _, _, _)
Gaps(busy_slots, free_slots, current_time, duration_minutes, work_start) ==
    IF busy_slots = <<>>
    THEN [raised |-> FALSE, free_slots |-> free_slots, current_time |-> current_time]
    ELSE LET busy == Head(busy_slots)
             before == SlotsUpTo(free_slots, current_time, duration_minutes,
                                 busy.start, work_start)
         IN  IF ~Comparable(current_time, busy.start) \/ ~Comparable(current_time, busy.end)
             THEN [raised |-> TRUE, free_slots |-> free_slots, current_time |-> current_time]
             ELSE Gaps(Tail(busy_slots), before.free_slots,
                       IF Seconds(busy.end) > Seconds(before.current_time)
                       THEN busy.end ELSE before.current_time,
                       duration_minutes, work_start)

CouldNotFind(text) == <<[error |-> "Could not find free slots: " \o text]>>

find_free_slots_tool(date, duration_minutes, events) ==
    LET target_date == strptime(date)
        start_dt == [target_date.value EXCEPT !.hour = 0, !.minute = 0, !.second = 0]
        busy_slots == BusySlots(events)
        work_start == [start_dt EXCEPT !.hour = 8, !.minute = 0]
        work_end == [start_dt EXCEPT !.hour = 18, !.minute = 0]
        gaps == Gaps(SortByStart(busy_slots), <<>>, work_start, duration_minutes, work_start)
        rest == SlotsUpTo(gaps.free_slots, gaps.current_time, duration_minutes,
                          work_end, work_start)
    IN  IF ~target_date.ok
        THEN CouldNotFind("time data " \o PyRepr(date) \o " does not match format")
        ELSE IF \E i \in DOMAIN events : "error" \in DOMAIN events[i]
        THEN <<[error |-> "Could not retrieve events"]>>
        ELSE IF \E i, j \in DOMAIN busy_slots :
                   ~Comparable(busy_slots[i].start, busy_slots[j].start)
        THEN CouldNotFind("can't compare offset-naive and offset-aware datetimes")
        ELSE IF gaps.raised
        THEN CouldNotFind("can't compare offset-naive and offset-aware datetimes")
        ELSE IF rest.free_slots # <<>> THEN rest.free_slots
        ELSE <<[message |-> "No free slots found on " \o date]>>

----------------------------------------------------------------------------
(* The tools, called one after the other *)

Call(tool, args, result) == [tool |-> tool, args |-> args, raised |-> FALSE, result |-> result]

FetchEmails ==
    /\ \E k \in 0..MaxK, target_email \in Targets, server \in MailServers :
          call' = Call("fetch_emails_tool",
                       [k |-> k, target_email |-> target_email, server |-> server],
                       fetch_emails_tool(k, target_email, server))
    /\ UNCHANGED <<PipelineVars, loop, calendar>>

ScheduleEvent ==
    /\ \E title \in Titles, datetime_str \in DatetimeStrings :
          LET out == schedule_event_tool(calendar, title, datetime_str, 60, "")
          IN  /\ calendar' = out.events
              /\ call' = Call("schedule_event_tool",
                              [title |-> title, datetime_str |-> datetime_str],
                              out.result)
    /\ UNCHANGED <<PipelineVars, loop>>

FindFreeSlots ==
    /\ \E date \in Dates, duration_minutes \in Durations, events \in EventLists :
          call' = Call("find_free_slots_tool",
                       [date |-> date, duration_minutes |-> duration_minutes,
                        events |-> events],
                       find_free_slots_tool(date, duration_minutes, events))
    /\ UNCHANGED <<PipelineVars, loop, calendar>>

\* the tools that keep no state: the mail and the free-slot search
ToolsNext ==
    \/ FetchEmails
    \/ FindFreeSlots

SpecTools == Init /\ [][ToolsNext]_vars

\* the in-memory calendar, call after call
CalendarNext == ScheduleEvent

SpecCalendar == Init /\ [][CalendarNext]_vars

----------------------------------------------------------------------------
(* Properties of the manager pipeline *)

\* the invocation is past the router, which returned without raising
RouterReturned == pc \in Handlers \cup {"update_memory", "done"}

\* the name of the profile that load_memory renders: the value of the first
\* item of the profile namespace
HeldName ==
    LET items == Search(store, <<"manager", "profile", get_user_id(config)>>)
    IN  IF items = <<>> THEN NoName ELSE items[1].value.name

Count(seq, x) == Cardinality({i \in DOMAIN seq : seq[i] = x})

\* C1: every invocation that returns has run update_memory, once, as its last
\* step and after the router and the handler of the chosen route, whichever of
\* email, budget and end the route is.
C1_UpdateAlwaysRuns ==
    pc = "done" =>
        /\ route \in {"email", "budget", "end"}
        /\ Count(trace, "update_memory") = 1
        /\ Last(trace) = "update_memory"
        /\ \E i \in DOMAIN trace : trace[i] = "router" /\ i < Len(trace)
        /\ route = "email" => trace[Len(trace) - 1] = "email_agent"
        /\ route = "budget" => trace[Len(trace) - 1] = "budget_agent"
        /\ route = "end" => trace[Len(trace) - 1] = "router"

C1_Witness ==
    /\ pc = "done"
    /\ route = "email"
    /\ Last(trace) = "update_memory"

\* the runs of the manager graph
ManagerRuns ==
    { <<"load_memory", "router", "update_memory">>,
      <<"load_memory", "router", "email_agent", "update_memory">>,
      <<"load_memory", "router", "budget_agent", "update_memory">> }

\* C2: the nodes of one invocation run in the order load_memory, router, at
\* most one handler, update_memory; none runs twice, and nothing runs after
\* the router but the handler of its route and update_memory.
C2_FixedOrder ==
    /\ \E run \in ManagerRuns : IsPrefix(trace, run)
    /\ pc = "done" => trace \in ManagerRuns
    /\ pc \in Handlers => Count(trace, "router") = 1 /\ route # "end"
    /\ pc = "router" => trace = <<"load_memory">>

C2_Witness ==
    /\ pc = "done"
    /\ rounds = 1
    /\ trace = <<"load_memory", "router", "budget_agent", "update_memory">>

\* C3: when the user message is a self-query and the memory context holds a
\* name the router resolves, the router makes no call to the classifier.
C3_ShortcutSkipsClassifier ==
    (/\ RouterReturned
     /\ IsSelfQuery(Last(input).content)
     /\ NameSearch(memory_context).matched)
        => classifier.calls = 0

\* C4: when the stored profile holds a name and the user message is a
\* self-query, the router returns route end and adds exactly one assistant
\* message, whose text contains that name, whatever the classifier answered.
C4_SelfQueryAnswersName ==
    (/\ pc \in Handlers \cup {"update_memory"}
     /\ IsSelfQuery(Last(input).content)
     /\ HeldName # NoName)
        => /\ route = "end"
           /\ messages = input \o <<Last(messages)>>
           /\ Last(messages).type = "ai"
           /\ Contains(Last(messages).content, HeldName[1])

\* C5: on the normal routing path a classifier response whose lower-cased,
\* trimmed text contains "email" and "budget" gives route email, and one that
\* contains "budget" and not "email" gives route budget.
C5_TieBreakEmail ==
    (RouterReturned /\ via = "classifier") =>
        LET content == Lower(Strip(classifier.content))
        IN  /\ (Contains(content, "email") /\ Contains(content, "budget"))
                   => route = "email"
            /\ (Contains(content, "budget") /\ ~Contains(content, "email"))
                   => route = "budget"

C5_Witness ==
    /\ via = "classifier"
    /\ classifier.content = "BUDGET, then Email"
    /\ route = "email"
    /\ pc = "email_agent"

\* C6: on the normal routing path a classifier response without a category
\* keyword gives route end, and the response, as the classifier gave it, is the
\* one message added to the transcript.
C6_NoKeywordAnswersRaw ==
    (/\ RouterReturned
     /\ via = "classifier"
     /\ ~Contains(Lower(Strip(classifier.content)), "email")
     /\ ~Contains(Lower(Strip(classifier.content)), "budget"))
        => /\ route = "end"
           /\ pc \in {"update_memory", "done"}
           /\ messages = input \o <<Last(messages)>>
           /\ Last(messages).type = "ai"
           /\ Last(messages).tool_calls = 0
           /\ Last(messages).content = classifier.content

C6_Witness ==
    /\ pc = "done"
    /\ via = "classifier"
    /\ route = "end"
    /\ Last(messages).content = "  Hello! How can I help?\n"

\* C7: when the classifier call of the router fails, the router still returns
\* route end with a direct answer and the invocation goes on to update_memory.
C7_ClassifierFailureFallsBack ==
    classifier.raised =>
        /\ pc \in {"update_memory", "done"}
        /\ route = "end"
        /\ messages # <<>>
        /\ Last(messages).type = "ai"

ExtractorFailures ==
    {"profile_extractor", "preferences_extractor", "instructions_extractor"}

\* C8: when one of the three extractors fails during update_memory, the
\* invocation still returns, with the transcript that ends with the answer of
\* the router or the handler; the failure does not reach the caller.
C8_ExtractorFailureAbsorbed ==
    failure \in ExtractorFailures =>
        /\ pc = "done"
        /\ IsPrefix(input, messages)
        /\ Last(messages).type = "ai"

\* C9: when a store call fails during update_memory, the invocation still
\* returns the transcript, whose last message is the answer computed before.
C9_StoreFailureAbsorbed ==
    failure = "store" =>
        /\ pc = "done"
        /\ IsPrefix(input, messages)
        /\ Last(messages).type = "ai"

\* C10: an invocation that returns gives back the input messages, in their
\* order, followed by at least one more message, the last one an assistant
\* message; and no step of an invocation removes, changes or reorders a
\* message that is already in the transcript.
C10_TranscriptAppendOnly ==
    /\ [](pc = "done" =>
            /\ IsPrefix(input, messages)
            /\ Len(messages) > Len(input)
            /\ Last(messages).type = "ai"
            /\ Last(messages).tool_calls = 0)
    /\ [][(pc \notin {"idle", "done", "error"} /\ pc' # "error")
            => IsPrefix(messages, messages')]_vars

C10_Witness ==
    /\ pc = "done"
    /\ route = "email"
    /\ Len(input) = 3
    /\ Len(messages) = Len(input) + 3

\* C11: when an invocation has returned and the caller invokes again with the
\* same thread_id, passing the new user message alone, the transcript the
\* second invocation starts from is the one the first returned followed by
\* the new message.
C11_CheckpointCarriesTranscript ==
    [][(/\ pc = "done"
        /\ pc' = "load_memory"
        /\ config'.thread_id = config.thread_id)
          => /\ IsPrefix(messages, messages')
             /\ Len(messages') = Len(messages) + Len(input')]_vars

----------------------------------------------------------------------------
(* Properties of the memory store and of the memory functions *)

\* the stored values of each category
KindOf(category) ==
    CASE category = "profile" -> "Profile"
      [] category = "preferences" -> "UserPreference"
      [] category = "instructions" -> "SystemInstruction"

\* the text of a section of the memory context that holds `items`
SectionOf(tag, items, empty) ==
    "<" \o tag \o ">\n    "
    \o (IF items = <<>> THEN empty
        ELSE IF tag = "user_profile" THEN ValueStr(items[1].value)
        ELSE SectionLines(items))
    \o "\n    </" \o tag \o ">"

\* the memory context shows, section by section, the entries of the
\* namespaces of user u and nothing else
RendersOnly(ctx, u, st) ==
    /\ Contains(ctx, SectionOf("user_profile", st[<<"manager", "profile", u>>], "None"))
    /\ Contains(ctx, SectionOf("user_preferences", st[<<"manager", "preferences", u>>], ""))
    /\ Contains(ctx, SectionOf("system_instructions", st[<<"manager", "instructions", u>>], ""))

\* C12: whatever the interleaving of the turns of two users, a step puts into
\* at most one namespace and leaves the search result of every other
\* namespace as it was; load_memory renders for a user the entries of that
\* user's three namespaces, each category in its own section, and no entry of
\* another user or category; every entry of a namespace is of its category.
C12_NamespacesIsolated ==
    /\ [][/\ Cardinality({ns \in Namespaces : shadow'[ns] # shadow[ns]}) <= 1
          /\ \A ns \in Namespaces :
                shadow'[ns] = shadow[ns] => Search(store', ns) = Search(store, ns)]_vars
    /\ [][\A s \in Sessions :
            (sess[s].pc = "idle" /\ sess'[s].pc = "router")
                => RendersOnly(sess'[s].memory_context,
                               get_user_id(sess'[s].config), store)]_vars
    /\ [](\A ns \in Namespaces : \A i \in DOMAIN store[ns] :
            store[ns][i].value.kind = KindOf(ns[2]))

\* user "1" loads its memory after "alice" has stored a profile and a
\* preference: the context shows no profile and no preference
C12_Witness ==
    /\ store[<<"manager", "profile", "alice">>] # <<>>
    /\ store[<<"manager", "preferences", "alice">>] # <<>>
    /\ store[<<"manager", "profile", "1">>] = <<>>
    /\ store[<<"manager", "preferences", "1">>] = <<>>
    /\ \E s \in Sessions :
          /\ sess[s].pc = "router"
          /\ get_user_id(sess[s].config) = "1"
          /\ Contains(sess[s].memory_context, "<user_profile>\n    None\n")
          /\ Contains(sess[s].memory_context, "<user_preferences>\n    \n")

ProfileNamespace(u) == <<"manager", "profile", u>>

PreferencesNamespace(u) == <<"manager", "preferences", u>>

C15_ProfileSingleton ==
    \A u \in UserIds : Len(Search(store, ProfileNamespace(u))) <= 1

\* C16: update_profile_memory run a second time, with the same messages and
\* an extractor that returns the same records, leaves the store as the first
\* run left it.
C16_ProfileUpdateIdempotent ==
    \A cfg \in CliConfigs : \A e \in UpdateEnvs(MemoryProfileOutcomes) :
        LET once == update_profile_memory(<<>>, cfg, store, e)
            twice == update_profile_memory(<<>>, cfg, once.store, e)
        IN  once.failure = NoFailure =>
                /\ twice.failure = NoFailure
                /\ twice.store = once.store

\* the store is as an update with the record "Quang" left it, and the same
\* update run again changes nothing
C16_Witness ==
    /\ store[ProfileNamespace("1")] = <<[key |-> "0", value |-> Profile(<<"Quang">>)]>>
    /\ shadow[ProfileNamespace("1")] = {[key |-> "0", value |-> Profile(<<"Quang">>)]}
    /\ sess["A"].pc = "update_preferences"
    /\ update_profile_memory(<<>>, sess["A"].config, store,
           [search |-> "ok", put |-> "ok",
            extractor |-> Answered(<<Profile(<<"Quang">>)>>)]).store = store

\* the type and the hashed text of a preference or an instruction
RecordType(v) ==
    IF v.kind = "UserPreference" THEN v.preference_type ELSE v.instruction_type

RecordText(v) ==
    IF v.kind = "UserPreference" THEN v.preference_value ELSE v.instruction_text

\* the namespaces of preferences and of instructions
KeyedNamespaces == {ns \in Namespaces : ns[2] \in {"preferences", "instructions"}}

\* C17 as claimed: a preference or an instruction written any number of times
\* is one entry, and an entry stays in the store when records that differ
\* from it in type or in value are written.
C17_DedupByTypeAndValue ==
    /\ [](\A ns \in KeyedNamespaces :
            LET items == Search(store, ns)
            IN  \A i, j \in DOMAIN items :
                    (/\ RecordType(items[i].value) = RecordType(items[j].value)
                     /\ RecordText(items[i].value) = RecordText(items[j].value))
                        => i = j)
    /\ [][\A ns \in KeyedNamespaces :
            LET items == Search(store, ns)
                after == Search(store', ns)
            IN  \A i \in DOMAIN items : \E j \in DOMAIN after :
                    after[j].value = items[i].value]_vars

\* C17, amended: a preference or an instruction written any number of times
\* is one entry; the entries of a namespace differ in type or in the hash of
\* their value; an entry stays in the store unless a record of the same type
\* whose value has the same hash is written, which takes its key and
\* replaces it.
C17_DedupByTypeAndHash ==
    /\ [](\A ns \in KeyedNamespaces :
            LET items == Search(store, ns)
            IN  \A i, j \in DOMAIN items :
                    (/\ RecordType(items[i].value) = RecordType(items[j].value)
                     /\ PyHash(RecordText(items[i].value))
                            = PyHash(RecordText(items[j].value)))
                        => i = j)
    /\ [][\A ns \in KeyedNamespaces :
            LET items == Search(store, ns)
                after == Search(store', ns)
            IN  \A i \in DOMAIN items : \E j \in DOMAIN after :
                    \/ after[j].value = items[i].value
                    \/ /\ after[j].key = items[i].key
                       /\ RecordType(after[j].value) = RecordType(items[i].value)
                       /\ PyHash(RecordText(after[j].value))
                              = PyHash(RecordText(items[i].value))]_vars

\* three preferences that differ in type or in value are in the store
\* together, and so are two instructions that differ in type
C17_Witness ==
    /\ hashes = SeparateHashes
    /\ Len(store[<<"manager", "instructions", "1">>]) = 2
    /\ Len(store[PreferencesNamespace("1")]) = 3
    /\ \A p \in MemoryPreferences :
          \E i \in 1..3 : store[PreferencesNamespace("1")][i].value = p

\* the user of the running invocation has no entry in any namespace
NoMemory ==
    \A c \in Categories : Search(store, <<"manager", c, get_user_id(config)>>) = <<>>

\* the invocation is between load_memory and the end of update_memory
MemoryLoaded == pc \in {"router", "update_memory"} \cup Handlers

\* C18 as claimed: for a user with no entry in any namespace, load_memory
\* returns an empty or blank memory context.
C18_EmptyMemoryIsBlank ==
    (MemoryLoaded /\ NoMemory) => Strip(memory_context) = ""

\* C18, amended: for a user with no entry in any namespace, load_memory
\* returns the three sections of the memory context with None as the profile
\* and nothing in the other two, a text that holds no name; the router then
\* takes the normal routing path: it routes on the classifier's answer.
C18_EmptyMemoryLoads ==
    (MemoryLoaded /\ NoMemory) =>
        /\ memory_context =
              "\n    \n    <user_profile>\n    None\n    </user_profile>\n    \n"
              \o "    <user_preferences>\n    \n    </user_preferences>\n    \n"
              \o "    <system_instructions>\n    \n    </system_instructions>\n    "
        /\ ~Contains(memory_context, "name")
        /\ RouterReturned =>
              /\ via = "classifier"
              /\ classifier.calls = 1
              /\ route = NormalRouting(<<>>, AIMessage(0, classifier.content, 0)).route

\* a self-query of a user with no memory went to the budget handler, as the
\* classifier said
C18_Witness ==
    /\ NoMemory
    /\ pc = "update_memory"
    /\ IsSelfQuery(Last(input).content)
    /\ route = "budget"
    /\ via = "classifier"

\* the memory identity of a config, as the claim has it
Identity(cfg) == IF "user_id" \in DOMAIN cfg THEN cfg.user_id ELSE cfg.thread_id

----------------------------------------------------------------------------
(* Properties of the handler loop *)

\* C21: in a handler, a model step whose message has a tool call is followed
\* by the tools step, the tools step by another model step, and the handler
\* ends exactly when a model step gives a message without a tool call; the
\* last message of a finished handler is an assistant message without tool
\* calls.
C21_LoopAlternates ==
    /\ [](pc \in Handlers =>
            /\ hpc \in {"llm", "tools"}
            /\ hpc = "tools" =>
                  Last(hmessages).type = "ai" /\ Last(hmessages).tool_calls # 0)
    /\ [][(pc \in Handlers /\ hpc = "llm" /\ pc' # "error") =>
            /\ Last(hmessages').type = "ai"
            /\ Len(hmessages') = Len(hmessages) + 1
            /\ Last(hmessages').tool_calls # 0 => (pc' = pc /\ hpc' = "tools")
            /\ Last(hmessages').tool_calls = 0 =>
                  /\ pc' = "update_memory"
                  /\ hpc' = "off"
                  /\ Last(messages') = Last(hmessages')]_vars
    /\ [][(pc \in Handlers /\ hpc = "tools" /\ pc' # "error") =>
            /\ pc' = pc
            /\ hpc' = "llm"
            /\ Len(hmessages') = Len(hmessages) + 1
            /\ Last(hmessages').type = "tool"]_vars
    /\ [][(pc \in Handlers /\ pc' \notin Handlers \cup {"error"}) =>
            /\ Last(messages').type = "ai"
            /\ Last(messages').tool_calls = 0]_vars

\* the email handler has finished after one tool round: its tool message is
\* followed by the final answer
C21_Witness ==
    /\ pc = "update_memory"
    /\ route = "email"
    /\ rounds = 1
    /\ messages[Len(messages) - 1].type = "tool"
    /\ Last(messages).type = "ai"
    /\ Last(messages).tool_calls = 0

----------------------------------------------------------------------------
(* C22: every invocation of a handler is a bounded loop that eventually    *)
(* reaches done, whatever its model answers, a tool call at every step      *)
(* included.  An invocation that ends because the model call or a tool      *)
(* raised is left aside.                                                    *)
C22_HandlerReachesDone ==
    [](loop.node = "llm" => <>(loop.node = "done" \/ loop.failure \in {"handler_llm", "tool"}))

----------------------------------------------------------------------------
\* the next step the route is said to select
ClaimedNext(r) ==
    CASE r = "email" -> "email_agent"
      [] r = "budget" -> "budget_agent"
      [] r = "calendar" -> "calendar_agent"
      [] r = "end" -> "update_memory"

----------------------------------------------------------------------------
\* the values last put, in any earlier invocation, into namespace c of the
\* user of the running invocation
LastPut(c) == shadow[<<"manager", c, get_user_id(config)>>]

(* C24: what update_memory wrote in one invocation is what load_memory of   *)
(* the next invocation of the same user reads, before the router runs: the  *)
(* store changes in update_memory only, load_memory is the first node of an *)
(* invocation, and the memory context the router gets renders as profile    *)
(* the value last put under the profile key "0" (None when nothing was put) *)
(* and lists every preference and instruction last put.                     *)
C24_WrittenThenRead ==
    /\ [][store' # store => pc = "update_memory"]_vars
    /\ [][pc = "load_memory" => (pc' = "router" /\ trace' = <<"load_memory">>)]_vars
    /\ [](pc = "router" =>
            /\ trace = <<"load_memory">>
            /\ IF \E e \in LastPut("profile") : e.key = "0"
               THEN \A e \in LastPut("profile") :
                       e.key = "0" =>
                          Contains(memory_context,
                                   "<user_profile>\n    " \o ValueStr(e.value)
                                   \o "\n    </user_profile>")
               ELSE Contains(memory_context, "<user_profile>\n    None\n    </user_profile>")
            /\ \A c \in {"preferences", "instructions"} :
                  \A e \in LastPut(c) : Contains(memory_context, "- " \o ValueStr(e.value) \o "\n"))

\* the second invocation is at the router with the profile the first one stored
C24_Witness ==
    /\ pc = "router"
    /\ \E e \in LastPut("profile") : e.key = "0" /\ e.value = Profile(<<"Quang">>)
    /\ Contains(memory_context, "'name': 'Quang'")

----------------------------------------------------------------------------
\* the extractor returned, with no response; the store calls work or would raise
ZeroResponses ==
    {[search |-> "ok", put |-> p, extractor |-> [raised |-> FALSE, responses |-> <<>>]] :
        p \in {"ok", "raise"}}

\* the result of an update that returned without a put
NoPut(r) == r.store = store /\ r.puts = <<>> /\ r.failure = NoFailure

(* C25: whatever the store holds, an update function whose extractor        *)
(* returns zero responses makes no put, leaves every namespace as it was    *)
(* and returns normally; an update_memory that ended with nothing ever put  *)
(* left the store empty.                                                    *)
C25_ZeroResponsesNoPut ==
    /\ \A e \in ZeroResponses :
          /\ NoPut(update_profile_memory(messages, config, store, e))
          /\ NoPut(update_preferences_memory(messages, config, store, e))
          /\ NoPut(update_instructions_memory(messages, config, store, e))
    /\ (pc = "done" /\ shadow = EmptyShadow) => store = EmptyStore

\* update_memory ran to its end and nothing was ever put: its extractors
\* returned no record
C25_Witness ==
    /\ pc = "done"
    /\ Last(trace) = "update_memory"
    /\ failure = NoFailure
    /\ shadow = EmptyShadow
    /\ store = EmptyStore

----------------------------------------------------------------------------
\* the status strings the three update functions return
IsStatus(content) ==
    \/ IsPrefix("Profile updated with: ", content)
    \/ IsPrefix("Preferences updated: ", content)
    \/ IsPrefix("Instructions updated: ", content)

(* C27: update_memory leaves the transcript as it found it: the messages    *)
(* are the same before and after the node, no message of the transcript is  *)
(* a status string of an update function, and the last message of a         *)
(* finished invocation is the answer of the router or of the handler.       *)
C27_UpdateKeepsTranscript ==
    /\ [][(pc = "update_memory" /\ pc' = "done") => messages' = messages]_vars
    /\ [](\A i \in DOMAIN messages : ~IsStatus(messages[i].content))
    /\ [](pc = "done" => /\ Last(messages).type = "ai"
                         /\ Last(messages).tool_calls = 0
                         /\ via = "memory" => IsPrefix("I remember you are ", Last(messages).content)
                         /\ (via = "classifier" /\ route = "end")
                               => Last(messages).content = classifier.content
                         /\ route \in {"email", "budget"}
                               => Last(messages).content = "Here is the result.")

\* update_memory stored a profile after the email handler answered
C27_Witness ==
    /\ pc = "done"
    /\ route = "email"
    /\ store # EmptyStore
    /\ Last(messages).content = "Here is the result."

----------------------------------------------------------------------------
(* C28: when the user message is a self-query and the memory context has    *)
(* no name to resolve (the user has no profile, or the profile that is      *)
(* rendered has its name unset), the router does not answer from memory: it *)
(* takes the normal routing path, so the route is the one the keywords of   *)
(* the classifier's response give, and on route end the answer is the       *)
(* classifier's response.                                                   *)
C28_SelfQueryWithoutName ==
    (/\ pc \in Handlers \cup {"update_memory"}
     /\ IsSelfQuery(Last(input).content)
     /\ HeldName = NoName)
        => /\ via = "classifier"
           /\ classifier.calls = 1
           /\ route = NormalRouting(<<>>, AIMessage(0, classifier.content, 0)).route
           /\ \A i \in DOMAIN messages : ~IsPrefix("I remember you are ", messages[i].content)
           /\ (pc = "update_memory" /\ route = "end")
                 => Last(messages).content = classifier.content

\* a self-query of a user whose stored profile has no name was answered with
\* the classifier's text
C28_Witness ==
    /\ pc = "update_memory"
    /\ IsSelfQuery(Last(input).content)
    /\ Search(store, <<"manager", "profile", get_user_id(config)>>) # <<>>
    /\ HeldName = NoName
    /\ route = "end"
    /\ Last(messages).content = "  Hello! How can I help?\n"

----------------------------------------------------------------------------
\* the ids of the entries of a result of fetch_emails_tool
ResultIds(result) == [i \in DOMAIN result |-> result[i].id]

\* the k highest of the matching message numbers, highest first
RECURSIVE Newest(_, _)
Newest(ids, k) ==
    IF k = 0 \/ ids = <<>> THEN <<>>
    ELSE <<NatStr(Last(ids))>> \o Newest(SubSeq(ids, 1, Len(ids) - 1), k - 1)

(* C26: fetch_emails_tool(k, target_email) returns the latest k matching    *)
(* emails, newest first: for every k >= 0 and every mailbox the result has  *)
(* at most k entries, the k highest matching ids in descending order; when  *)
(* the mail server fails, the result is one error string.                   *)
C26_LatestKNewestFirst ==
    call.tool = "fetch_emails_tool" =>
        LET server == call.args.server
        IN  /\ server.login = "raise" =>
                  /\ Len(call.result) = 1
                  /\ IsPrefix("Error reading emails: ", call.result[1])
            /\ (server.login = "ok" /\ server.search = "OK" /\ server.fetch = "ok") =>
                  /\ Len(call.result) <= call.args.k
                  /\ ResultIds(call.result)
                        = Newest(Matching(server.mailbox, call.args.target_email, 1),
                                 call.args.k)

----------------------------------------------------------------------------
\* the start of a stored event
StartOf(event) == fromisoformat(event.datetime).value

\* the texts a call returns when it stores nothing
IsRefusal(result) ==
    \/ IsPrefix("Potential conflict: ", result)
    \/ IsPrefix("Error scheduling event: ", result)

(* C29: starting from an empty in-memory calendar, after any sequence of    *)
(* schedule_event_tool calls no two stored events of the same calendar date *)
(* start less than 30 minutes apart; a call that hits a conflict or whose   *)
(* datetime does not parse returns a message and leaves the list as it was, *)
(* and any other call appends its one event.                                *)
C29_NoCloseEvents ==
    /\ [](\A i, j \in DOMAIN calendar :
            /\ fromisoformat(calendar[i].datetime).ok
            /\ Comparable(StartOf(calendar[i]), StartOf(calendar[j]))
            /\ (i # j /\ DateOf(StartOf(calendar[i])) = DateOf(StartOf(calendar[j])))
                  => Abs(Seconds(StartOf(calendar[i])) - Seconds(StartOf(calendar[j])))
                        >= 30 * 60)
    /\ [][call'.tool = "schedule_event_tool" =>
            IF IsRefusal(call'.result) THEN calendar' = calendar
            ELSE /\ IsPrefix("Event scheduled: ", call'.result)
                 /\ Len(calendar') = Len(calendar) + 1
                 /\ SubSeq(calendar', 1, Len(calendar)) = calendar
                 /\ Last(calendar').title = call'.args.title]_vars
    /\ []((call.tool = "schedule_event_tool"
            /\ ~fromisoformat(Replace(call.args.datetime_str, "Z", "+00:00")).ok)
              => IsPrefix("Error scheduling event: ", call.result))

\* two events of consecutive days twenty minutes apart are stored, and a
\* call for a time close to another one of the first day was refused
C29_Witness ==
    /\ Len(calendar) = 3
    /\ \E i, j \in DOMAIN calendar :
          /\ calendar[i].datetime = "2026-01-05T23:50:00"
          /\ calendar[j].datetime = "2026-01-06T00:10:00"
    /\ call.tool = "schedule_event_tool"
    /\ call.args.datetime_str = "2026-01-05T09:20:00"
    /\ IsPrefix("Potential conflict: ", call.result)

----------------------------------------------------------------------------
\* the slots of a result of find_free_slots_tool
SlotsOf(result) == {i \in DOMAIN result : "start" \in DOMAIN result[i]}

\* hour h of the day the slots were asked for
HourOfDay(date, h) == [strptime(date).value EXCEPT !.hour = h]

(* C30: every free slot that find_free_slots_tool returns lies inside the   *)
(* working hours of the day asked for: it starts at or after 08:00 and ends *)
(* at or before 18:00.                                                      *)
C30_SlotsInWorkingHours ==
    call.tool = "find_free_slots_tool" =>
        \A i \in SlotsOf(call.result) :
            LET start == fromisoformat(call.result[i].start).value
                end == fromisoformat(call.result[i].end).value
            IN  /\ Seconds(start) >= Seconds(HourOfDay(call.args.date, 8))
                /\ Seconds(end) <= Seconds(HourOfDay(call.args.date, 18))

====
